---- MODULE Spec2Model ----
(***************************************************************************)
(* A state-machine model of crates/bevy_xpbd_2d/examples/ray_caster.rs:    *)
(* the Startup system `setup`, and the two Update systems                  *)
(* `transform_parent` (run only in AppState::Running) and `render_rays`    *)
(* (the debug drawing with its ricochet loop).                             *)
(*                                                                         *)
(* Vectors are pairs of integers <<x, y>>; an Option<T> is a sequence of   *)
(* length 0 (None) or 1 (Some).  The spatial query `sq.cast_ray`, the      *)
(* contents of RayCaster / RayHits and the application state are produced  *)
(* by the engine: they are drawn from bounded families each frame.         *)
(***************************************************************************)
EXTENDS Integers, Sequences, FiniteSets, TLC

VARIABLES
    phase,              \* "startup" before the Startup schedule ran, then "update"
    setupRuns,          \* how many times setup ran
    frame,              \* number of Update steps begun; also the elapsed time
    appState,           \* AppState: "Running" or "Paused"
    entities,           \* the spawned entities, in spawn order
    transforms,         \* Transform component of the entities that carry one
    rays,               \* the (RayCaster, RayHits) pairs of the query, in order
    sqWorld,            \* what the SpatialQuery pipeline holds this frame
    gizmos,             \* the draw commands issued this frame, in order
    castLog,            \* the cast_ray calls issued this frame, in order
    tpc,                \* transform_parent: "idle", "pending", "ran", "skipped"
    rpc,                \* render_rays: "idle", "for_ray", "for_hit", "while", "done"
    rayIdx,             \* index of the pair of line 83 being processed
    hitIdx,             \* index of the hit of line 88 being processed
    some_ricochet,      \* line 89
    n_hits,             \* line 91
    last_hit_location   \* line 92

vars == <<phase, setupRuns, frame, appState, entities, transforms, rays, sqWorld,
          gizmos, castLog, tpc, rpc, rayIdx, hitIdx, some_ricochet, n_hits,
          last_hit_location>>

renderLocals == <<rpc, rayIdx, hitIdx, some_ricochet, n_hits, last_hit_location>>

----------------------------------------------------------------------------
\* Bounds of the model.

MaxFrames == 2          \* Update steps explored
MaxHits == 2            \* longest RayHits drawn
MaxToi == 2             \* largest time of impact a ricochet cast returns
MaxParents == 2         \* most ParentTransform entities in a drawn world

----------------------------------------------------------------------------
\* Vectors and options.

Add(a, b) == <<a[1] + b[1], a[2] + b[2]>>
Scale(v, k) == <<v[1] * k, v[2] * k>>
Neg(v) == <<0 - v[1], 0 - v[2]>>
Abs(i) == IF i < 0 THEN 0 - i ELSE i

None == <<>>
Some(x) == <<x>>
IsSome(o) == Len(o) = 1
Unwrap(o) == o[1]

----------------------------------------------------------------------------
\* setup (lines 25-65).

Radius == 16            \* line 36
GridMin == -4           \* lines 37-38: -4..=4
GridMax == 4
InnerMin == -3          \* line 39: (-3..4)
InnerEnd == 4

GridSide == GridMax - GridMin + 1

\* (-3..4).contains(&v): a half-open range.
InnerContainsInclusive(v) == InnerMin <= v /\ v <= InnerEnd
InnerContains(v) == InnerMin <= v /\ v < InnerEnd

\* The cells the two nested loops visit, x outermost, in order.
GridCells ==
    [i \in 1..(GridSide * GridSide) |->
        <<GridMin + ((i - 1) \div GridSide), GridMin + ((i - 1) % GridSide)>>]

\* The cells that survive the `continue` of lines 39-41.
PerimeterCells ==
    SelectSeq(GridCells, LAMBDA c : ~(InnerContains(c[1]) /\ InnerContains(c[2])))

CameraId == 1
BoxParentId == 2
CircleId(i) == BoxParentId + i
BodyId == BoxParentId + Len(PerimeterCells) + 1

Camera == [id |-> CameraId, comps |-> {"Camera", "Transform"}, parent |-> 0, radius |-> 0]
BoxParent ==
    [id |-> BoxParentId, comps |-> {"Transform", "ParentTransform"}, parent |-> 0,
     radius |-> 0]
Circle(i) ==
    [id |-> CircleId(i), comps |-> {"Mesh", "Material", "Transform", "Collider"},
     parent |-> BoxParentId, radius |-> Radius]
Body ==
    [id |-> BodyId, comps |-> {"RigidBody", "AngularVelocity", "RayCaster"},
     parent |-> 0, radius |-> 0]

\* Everything setup spawns, in spawn order.
SetupEntities ==
    <<Camera, BoxParent>> \o [i \in 1..Len(PerimeterCells) |-> Circle(i)] \o <<Body>>

IdentityTransform == [rot |-> 0, x |-> 0, y |-> 0]

\* Transform::from_xyz(x * radius * 3.0, y * radius * 3.0, 0.0)
CircleTransform(c) == [rot |-> 0, x |-> c[1] * Radius * 3, y |-> c[2] * Radius * 3]

\* The rigid body is spawned without a Transform; the physics engine prepares one.
CarriesTransform(e) == "Transform" \in e.comps \/ "RigidBody" \in e.comps

SetupTransforms ==
    [id \in {SetupEntities[k].id :
                k \in {j \in 1..Len(SetupEntities) : CarriesTransform(SetupEntities[j])}} |->
        IF id > BoxParentId /\ id < BodyId
        THEN CircleTransform(PerimeterCells[id - BoxParentId])
        ELSE IdentityTransform]

\* A world that holds k entities carrying (Transform, ParentTransform) and nothing
\* else: the input of transform_parent's query when it is not the world of setup.
DrawnEntities(k) ==
    [i \in 1..k |->
        [id |-> i, comps |-> {"Transform", "ParentTransform"}, parent |-> 0, radius |-> 0]]

EntitySet == {entities[k] : k \in 1..Len(entities)}
WithComp(c) == {e \in EntitySet : c \in e.comps}

----------------------------------------------------------------------------
\* transform_parent (lines 67-74).

\* Query<&mut Transform, With<ParentTransform>>
ParentQuery == {e.id : e \in {f \in WithComp("ParentTransform") : CarriesTransform(f)}}

\* get_single_mut: Ok only when the query matches exactly one entity.
GetSingleEvery(q) == q
GetSingleMut(q) == IF Cardinality(q) = 1 THEN q ELSE {}

\* sin and cos of the elapsed time, times 10; time advances a quarter period a frame.
Sin10(t) == CASE t % 4 = 0 -> 0 [] t % 4 = 1 -> 10 [] t % 4 = 2 -> 0 [] OTHER -> -10
Cos10(t) == CASE t % 4 = 0 -> 10 [] t % 4 = 1 -> 0 [] t % 4 = 2 -> -10 [] OTHER -> 0

\* Lines 69-72.  rotate_around(Vec3::Z, q) turns the rotation by the angle of q (one
\* unit of 0.001 * delta) and moves x and y, which lines 71-72 then overwrite.
ParentTransformAfter(tr, elapsed) ==
    [rot |-> tr.rot + 1, x |-> Sin10(elapsed), y |-> Cos10(elapsed)]

\* run_if(in_state(AppState::Running)), line 17.
InStateAlways(s) == TRUE
InState(s) == appState = s

----------------------------------------------------------------------------
\* What the engine hands to render_rays: the ray's pose, RayHits and cast_ray.

AppStates == {"Running", "Paused"}

\* RayCaster::new(Vector::ZERO, Direction2d::X) on a kinematic body that only
\* rotates: the global origin stays at zero, and the global direction turns with
\* time (a quarter turn a frame, as time advances a quarter period a frame).
RayOrigin == <<0, 0>>
DirectionAt(t) ==
    CASE t % 4 = 1 -> <<1, 0>> [] t % 4 = 2 -> <<0, 1>> [] t % 4 = 3 -> <<-1, 0>>
      [] OTHER -> <<0, -1>>

\* A drawn RayHits of nh hits: the i-th is circle i, met at time i, on a surface that
\* faces the ray.
DrawnHits(direction, nh) ==
    [i \in 1..nh |->
        [entity |-> CircleId(i), time_of_impact |-> i, normal |-> Neg(direction)]]

\* The colliders a ricochet can meet: a cast from a point within `reach` of the
\* origin hits, after `toi`, a surface whose normal is the cast direction ("same") or
\* its opposite ("flip"); a cast from farther away misses ("miss") or starts inside a
\* shape ("zero").  The near worlds end a chain early, the far worlds let it run to
\* the cap or end it at the last cast the cap allows, the flip worlds bounce it
\* between two surfaces for ever.
RicochetCap == 64       \* line 94
NearReaches == {0, 2}
NearWorlds == [reach : NearReaches, edge : {"miss", "zero"}, turn : {"same"}, toi : 1..MaxToi]
FarWorlds ==
    [reach : {RicochetCap - 4, RicochetCap - 3}, edge : {"miss"}, turn : {"same"}, toi : {1}]
FlipWorlds == [reach : {2}, edge : {"miss"}, turn : {"flip"}, toi : {1}]
Worlds == NearWorlds \cup FarWorlds \cup FlipWorlds

Inside(w, p) == Abs(p[1]) <= w.reach /\ Abs(p[2]) <= w.reach

Candidates == {CircleId(1), CircleId(2), CircleId(3)}
Nearest(excluded) ==
    CHOOSE c \in Candidates \ excluded : \A d \in Candidates \ excluded : c <= d

\* SpatialQuery::cast_ray: the first hit along the ray within max_time_of_impact
\* among the entities the filter lets through, or None.
CastRay(w, origin, direction, max_time_of_impact, solid, excluded) ==
    IF Inside(w, origin) /\ w.toi <= max_time_of_impact
    THEN Some([entity |-> Nearest(excluded), time_of_impact |-> w.toi,
               normal |-> IF w.turn = "flip" THEN Neg(direction) ELSE direction])
    ELSE IF w.edge = "miss"
         THEN None
         ELSE Some([entity |-> Nearest(excluded), time_of_impact |-> 0,
                    normal |-> Neg(direction)])

\* The pairs Query<(&mut RayCaster, &mut RayHits)> yields, in entity order.
RayQuery(direction, hits) ==
    LET casters == SelectSeq(entities, LAMBDA e : "RayCaster" \in e.comps)
    IN  [k \in 1..Len(casters) |->
            [entity |-> casters[k].id, origin |-> RayOrigin, direction |-> direction,
             hits |-> hits]]

----------------------------------------------------------------------------
\* render_rays (lines 78-133).

RicochetMaxDistance == 1000     \* line 99
MissLineLength == 1000000       \* line 130
MissRayLength == 1000           \* line 119
MarkerRadius == 5               \* lines 112 and 116

\* The gizmo commands.  `chain` is not part of the command: it records the pair and
\* the hit the command was issued for (<<ray, 0>> outside the loop over the hits).
Line2d(a, b, color, chain) ==
    [kind |-> "line_2d", a |-> a, b |-> b, r |-> 0, color |-> color, chain |-> chain]
Circle2d(p, r, color, chain) ==
    [kind |-> "circle_2d", a |-> p, b |-> p, r |-> r, color |-> color, chain |-> chain]
Arrow2d(a, b, color, chain) ==
    [kind |-> "arrow_2d", a |-> a, b |-> b, r |-> 0, color |-> color, chain |-> chain]
Ray2d(start, v, color, chain) ==
    [kind |-> "ray_2d", a |-> start, b |-> Add(start, v), r |-> 0, color |-> color,
     chain |-> chain]

\* `for (ray, hits) in &mut rays`: the items are only read (global_origin,
\* global_direction, iter, is_empty).
ItemCleared(item) == [item EXCEPT !.hits = <<>>]
ItemAfterUse(item) == item

\* hits.is_empty(), line 129.
HitsIsEmptyAlways(hits) == TRUE
HitsIsEmpty(hits) == Len(hits) = 0

\* The loop condition of line 94.
LoopCondInclusive(some, n) == IsSome(some) /\ n <= RicochetCap
LoopCond(some, n) == IsSome(some) /\ n < RicochetCap

\* The arguments of the cast_ray call of lines 96-102.
RicochetCastUnfiltered(last, ricochet) ==
    [origin |-> last, direction |-> ricochet.normal,
     max_time_of_impact |-> RicochetMaxDistance, solid |-> TRUE, excluded |-> {}]
RicochetCast(last, ricochet) ==
    [origin |-> last, direction |-> ricochet.normal,
     max_time_of_impact |-> RicochetMaxDistance, solid |-> TRUE,
     excluded |-> {ricochet.entity}]

\* some_ricochet = sq.cast_ray(..), line 96: the result replaces the ricochet.
KeepRicochetOnMiss(old, result) == IF IsSome(result) THEN result ELSE old
AssignRicochet(old, result) == result

\* this_hit.time_of_impact == 0., line 105.
IsZeroToiNever(this_hit) == FALSE
IsZeroToi(this_hit) == this_hit.time_of_impact = 0

\* Lines 109-110.
NewHitLocationOwnNormal(last, ricochet, this_hit) ==
    Add(last, Scale(this_hit.normal, this_hit.time_of_impact))
NewHitLocation(last, ricochet, this_hit) ==
    Add(last, Scale(ricochet.normal, this_hit.time_of_impact))

----------------------------------------------------------------------------
\* The state machine.

Init ==
    /\ phase = "startup"
    /\ setupRuns = 0
    /\ frame = 0
    /\ appState \in AppStates
    /\ entities = <<>>
    /\ transforms = <<>>
    /\ rays = <<>>
    /\ sqWorld = CHOOSE w \in Worlds : TRUE
    /\ gizmos = <<>>
    /\ castLog = <<>>
    /\ tpc = "idle"
    /\ rpc = "idle"
    /\ rayIdx = 1
    /\ hitIdx = 1
    /\ some_ricochet = None
    /\ n_hits = 0
    /\ last_hit_location = <<0, 0>>

\* The Startup schedule (line 18): setup runs, and its commands are applied.
Setup ==
    /\ phase = "startup"
    /\ phase' = "update"
    /\ setupRuns' = setupRuns + 1
    /\ entities' = SetupEntities
    /\ transforms' = SetupTransforms
    /\ UNCHANGED <<frame, appState, rays, sqWorld, gizmos, castLog, tpc>>
    /\ UNCHANGED renderLocals

\* The engine at the start of an Update step: the state transition is applied,
\* time advances, and physics has refreshed RayCaster and RayHits.
FrameBegin ==
    /\ phase = "update"
    /\ rpc = "idle"
    /\ tpc = "idle"
    /\ frame < MaxFrames
    /\ frame' = frame + 1
    /\ appState' \in AppStates
    /\ sqWorld' \in Worlds
    /\ \E nh \in 0..MaxHits :
          rays' = RayQuery(DirectionAt(frame'), DrawnHits(DirectionAt(frame'), nh))
    /\ tpc' = "pending"
    /\ rpc' = "for_ray"
    /\ UNCHANGED <<phase, setupRuns, entities, transforms, gizmos, castLog, rayIdx,
                   hitIdx, some_ricochet, n_hits, last_hit_location>>

\* The engine at the end of an Update step, once every system of the step has run
\* or been skipped: the gizmos are rendered and dropped.
FrameEnd ==
    /\ phase = "update"
    /\ rpc = "done"
    /\ tpc \in {"ran", "skipped"}
    /\ gizmos' = <<>>
    /\ castLog' = <<>>
    /\ tpc' = "idle"
    /\ rpc' = "idle"
    /\ rayIdx' = 1
    /\ hitIdx' = 1
    /\ some_ricochet' = None
    /\ n_hits' = 0
    /\ last_hit_location' = <<0, 0>>
    /\ UNCHANGED <<phase, setupRuns, frame, appState, entities, transforms, rays,
                   sqWorld>>

\* transform_parent, when its run condition holds.
TransformParent ==
    /\ phase = "update"
    /\ tpc = "pending"
    /\ InState("Running")
    /\ transforms' =
          [id \in DOMAIN transforms |->
              IF id \in GetSingleMut(ParentQuery)
              THEN ParentTransformAfter(transforms[id], frame)
              ELSE transforms[id]]
    /\ tpc' = "ran"
    /\ UNCHANGED <<phase, setupRuns, frame, appState, entities, rays, sqWorld, gizmos,
                   castLog>>
    /\ UNCHANGED renderLocals

\* transform_parent is skipped in this Update step: its run condition is false.
TransformParentSkipped ==
    /\ phase = "update"
    /\ tpc = "pending"
    /\ ~InState("Running")
    /\ tpc' = "skipped"
    /\ UNCHANGED <<phase, setupRuns, frame, appState, entities, transforms, rays,
                   sqWorld, gizmos, castLog>>
    /\ UNCHANGED renderLocals

\* Line 83: the next pair of the query, or the end of render_rays.
ForRay ==
    /\ phase = "update"
    /\ rpc = "for_ray"
    /\ IF rayIdx <= Len(rays)
       THEN rpc' = "for_hit" /\ hitIdx' = 1
       ELSE rpc' = "done" /\ hitIdx' = hitIdx
    /\ UNCHANGED <<phase, setupRuns, frame, appState, entities, transforms, rays,
                   sqWorld, gizmos, castLog, tpc, rayIdx, some_ricochet, n_hits,
                   last_hit_location>>

\* Line 88: the next hit (lines 89-93), or the end of the loop over the hits
\* (lines 129-131).
ForHit ==
    /\ phase = "update"
    /\ rpc = "for_hit"
    /\ LET ray == rays[rayIdx]
           origin == ray.origin
           direction == ray.direction
       IN  IF hitIdx <= Len(ray.hits)
           THEN LET hit == ray.hits[hitIdx]
                    start == Add(origin, Scale(direction, hit.time_of_impact))
                IN  /\ some_ricochet' = Some(hit)
                    /\ n_hits' = 1
                    /\ last_hit_location' = start
                    /\ gizmos' =
                          Append(gizmos, Line2d(origin, start, "GREEN", <<rayIdx, hitIdx>>))
                    /\ rpc' = "while"
                    /\ UNCHANGED <<rays, rayIdx>>
           ELSE LET used == ItemAfterUse(ray)
                IN  /\ rays' = [rays EXCEPT ![rayIdx] = used]
                    /\ gizmos' =
                          IF HitsIsEmpty(used.hits)
                          THEN Append(gizmos,
                                      Line2d(origin,
                                             Add(origin, Scale(direction, MissLineLength)),
                                             "ORANGE_RED", <<rayIdx, 0>>))
                          ELSE gizmos
                    /\ rayIdx' = rayIdx + 1
                    /\ rpc' = "for_ray"
                    /\ UNCHANGED <<some_ricochet, n_hits, last_hit_location>>
    /\ UNCHANGED <<phase, setupRuns, frame, appState, entities, transforms, sqWorld,
                   castLog, tpc, hitIdx>>

\* Line 94: one iteration of the ricochet loop (lines 95-126), or its end.
While ==
    /\ phase = "update"
    /\ rpc = "while"
    /\ IF LoopCond(some_ricochet, n_hits)
       THEN LET ricochet == Unwrap(some_ricochet)
                chain == <<rayIdx, hitIdx>>
                call == RicochetCast(last_hit_location, ricochet)
                result == CastRay(sqWorld, call.origin, call.direction,
                                  call.max_time_of_impact, call.solid, call.excluded)
                assigned == AssignRicochet(some_ricochet, result)
            IN  /\ castLog' =
                      Append(castLog, [call |-> call, result |-> result, chain |-> chain])
                /\ some_ricochet' = assigned
                /\ IF IsSome(assigned)
                   THEN LET this_hit == Unwrap(assigned)
                            new_hit_location ==
                                NewHitLocation(last_hit_location, ricochet, this_hit)
                        IN  IF IsZeroToi(this_hit)
                            THEN /\ rpc' = "for_hit"
                                 /\ hitIdx' = hitIdx + 1
                                 /\ UNCHANGED <<gizmos, n_hits, last_hit_location>>
                            ELSE /\ gizmos' =
                                       gizmos \o
                                       <<Circle2d(last_hit_location, MarkerRadius,
                                                  "YELLOW", chain),
                                         Arrow2d(last_hit_location, new_hit_location,
                                                 "GREEN", chain)>>
                                 /\ last_hit_location' = new_hit_location
                                 /\ n_hits' = n_hits + 1
                                 /\ UNCHANGED <<rpc, hitIdx>>
                   ELSE /\ gizmos' =
                              gizmos \o
                              <<Circle2d(last_hit_location, MarkerRadius, "ORANGE", chain),
                                Ray2d(last_hit_location,
                                      Scale(ricochet.normal, MissRayLength),
                                      "ORANGE_RED", chain)>>
                        /\ n_hits' = n_hits + 1
                        /\ UNCHANGED <<rpc, hitIdx, last_hit_location>>
       ELSE /\ rpc' = "for_hit"
            /\ hitIdx' = hitIdx + 1
            /\ UNCHANGED <<gizmos, castLog, some_ricochet, n_hits, last_hit_location>>
    /\ UNCHANGED <<phase, setupRuns, frame, appState, entities, transforms, rays,
                   sqWorld, tpc, rayIdx>>

RenderRays == ForRay \/ ForHit \/ While

Next == Setup \/ FrameBegin \/ FrameEnd \/ TransformParent \/ TransformParentSkipped \/ RenderRays

Spec == Init /\ [][Next]_vars

\* The same program, and transform_parent over drawn worlds that hold zero to
\* MaxParents entities carrying ParentTransform.
InitWorlds ==
    /\ phase = "update"
    /\ setupRuns = 0
    /\ frame = 0
    /\ appState \in AppStates
    /\ \E k \in 0..MaxParents :
          /\ entities = DrawnEntities(k)
          /\ transforms = [i \in 1..k |-> IdentityTransform]
    /\ rays = <<>>
    /\ sqWorld = CHOOSE w \in Worlds : TRUE
    /\ gizmos = <<>>
    /\ castLog = <<>>
    /\ tpc = "idle"
    /\ rpc = "idle"
    /\ rayIdx = 1
    /\ hitIdx = 1
    /\ some_ricochet = None
    /\ n_hits = 0
    /\ last_hit_location = <<0, 0>>

SpecWorlds == (Init \/ InitWorlds) /\ [][Next]_vars

----------------------------------------------------------------------------
\* Reading the draw commands and the cast_ray calls of the current frame.

InFrame == rpc \in {"for_ray", "for_hit", "while", "done"}

\* The pairs render_rays has finished with.
RaysDone == {r \in 1..Len(rays) : InFrame /\ r < rayIdx}

\* The chains (pair, hit) begun so far, and those that have ended.
ChainsBegun ==
    {c \in (1..Len(rays)) \X (1..(MaxHits + 1)) :
        /\ InFrame
        /\ c[2] <= Len(rays[c[1]].hits)
        /\ \/ c[1] < rayIdx
           \/ c[1] = rayIdx /\ rpc \in {"for_hit", "while"} /\ c[2] < hitIdx
           \/ c[1] = rayIdx /\ rpc = "while" /\ c[2] = hitIdx}
ChainsEnded == {c \in ChainsBegun : ~(rpc = "while" /\ c = <<rayIdx, hitIdx>>)}

HitOf(c) == rays[c[1]].hits[c[2]]
StartOf(c) ==
    Add(rays[c[1]].origin, Scale(rays[c[1]].direction, HitOf(c).time_of_impact))

ChainGizmos(c) == SelectSeq(gizmos, LAMBDA g : g.chain = c)
ChainCasts(c) == SelectSeq(castLog, LAMBDA e : e.chain = c)
RayGizmos(r) == SelectSeq(gizmos, LAMBDA g : g.chain[1] = r)
RayCasts(r) == SelectSeq(castLog, LAMBDA e : e.chain[1] = r)

Where(seq, Test(_)) == {k \in 1..Len(seq) : Test(seq[k])}
Count(seq, Test(_)) == Cardinality(Where(seq, Test))

IsMissResult(e) == ~IsSome(e.result)
IsZeroResult(e) == IsSome(e.result) /\ Unwrap(e.result).time_of_impact = 0
IsProperHit(e) == IsSome(e.result) /\ Unwrap(e.result).time_of_impact # 0

\* The hit that precedes the k-th cast of a chain: the hit of RayHits, then the
\* result of the cast before.
Preceding(c, L, k) == IF k = 1 THEN HitOf(c) ELSE Unwrap(L[k - 1].result)

----------------------------------------------------------------------------
\* C1: for every pair render_rays has processed in the frame, either RayHits is empty,
\* and then the only thing drawn for the pair is one orange-red line from the global
\* origin along the global direction, 1,000,000 long, and no cast_ray call was made;
\* or RayHits is not empty, and then exactly one green line was drawn per hit, from
\* the origin to origin + direction * time_of_impact, and no orange-red line.
C1_MissLineOrGreenLines ==
    /\ \A r \in RaysDone :
          LET ray == rays[r]
              G == RayGizmos(r)
              missLine ==
                  Line2d(ray.origin, Add(ray.origin, Scale(ray.direction, 1000000)),
                         "ORANGE_RED", <<r, 0>>)
              IsMissLine(g) == g.kind = "line_2d" /\ g.color = "ORANGE_RED"
              IsGreenLine(g) == g.kind = "line_2d" /\ g.color = "GREEN"
          IN  IF Len(ray.hits) = 0
              THEN G = <<missLine>> /\ Len(RayCasts(r)) = 0
              ELSE /\ Count(G, IsMissLine) = 0
                   /\ Count(G, IsGreenLine) = Len(ray.hits)
                   /\ \A h \in 1..Len(ray.hits) :
                         LET Own(g) == g.kind = "line_2d" /\ g.chain = <<r, h>>
                         IN  /\ Count(G, Own) = 1
                             /\ \A k \in Where(G, Own) :
                                   G[k] = Line2d(ray.origin, StartOf(<<r, h>>), "GREEN",
                                                 <<r, h>>)
    /\ \A r \in 1..Len(rays) :
          LET IsMissLine(g) == g.kind = "line_2d" /\ g.color = "ORANGE_RED"
          IN  Len(rays[r].hits) > 0 => Count(RayGizmos(r), IsMissLine) = 0

\* A pair with two hits has been processed, and both green lines are drawn.
C1_Witness ==
    /\ rpc = "done"
    /\ Len(rays) = 1
    /\ Len(rays[1].hits) = 2
    /\ LET IsGreenLine(g) == g.kind = "line_2d" /\ g.color = "GREEN"
       IN  Count(gizmos, IsGreenLine) = 2

\* The casts of every chain stay below the cap, and n_hits counts them.
C2_ChainState ==
    /\ \A e \in {castLog[k] : k \in 1..Len(castLog)} : e.chain \in ChainsBegun
    /\ \A c \in ChainsBegun : Len(ChainCasts(c)) <= 63
    /\ rpc = "while" =>
          LET c == <<rayIdx, hitIdx>>
              L == ChainCasts(c)
          IN  /\ n_hits = 1 + Len(L)
              /\ n_hits <= 64
              /\ Len(L) = 0 =>
                    some_ricochet = Some(HitOf(c)) /\ last_hit_location = StartOf(c)

\* C2: the ricochet loop ends for every hit: a chain makes at most 63 cast_ray calls;
\* n_hits, the ricochet and last_hit_location start afresh for each hit (n_hits is one
\* more than the casts of the current chain); and an iteration that stays in the loop
\* increments n_hits, which never exceeds 64.
C2_RicochetLoopBounded ==
    /\ []C2_ChainState
    /\ [][While /\ rpc' = "while" =>
             n_hits' = n_hits + 1 /\ n_hits' <= 64 /\ Len(castLog') = Len(castLog) + 1]_vars

\* Two hits of one RayHits have each had 63 casts.
C2_Witness ==
    /\ Len(rays) = 1
    /\ ChainsBegun = {<<1, 1>>, <<1, 2>>}
    /\ Len(ChainCasts(<<1, 1>>)) = 63
    /\ Len(ChainCasts(<<1, 2>>)) = 63

\* C3: setup spawns exactly one circle collider of radius 16 for each grid cell (x, y)
\* with -4 <= x, y <= 4 and max(|x|, |y|) = 4, 32 in all and none at an inner cell,
\* placed at (48 x, 48 y), each a child of the single ParentTransform entity.
C3_PerimeterOfCircles ==
    setupRuns = 1 =>
        LET circles == WithComp("Collider")
            parents == WithComp("ParentTransform")
            \* the cells with max(|x|, |y|) = 4: the four sides of the square
            ring == (({-4, 4} \X (-4..4)) \cup ((-4..4) \X {-4, 4}))
            places == {<<transforms[e.id].x, transforms[e.id].y>> : e \in circles}
        IN  /\ Cardinality(circles) = 32
            /\ Cardinality(parents) = 1
            \* 32 circles over the 32 places of the ring: one circle a place, and
            \* none at a cell with |x| <= 3 and |y| <= 3
            /\ places = {<<48 * c[1], 48 * c[2]>> : c \in ring}
            /\ Cardinality(places) = 32
            /\ \A e \in circles :
                  /\ e.radius = 16
                  /\ \E q \in parents : e.parent = q.id

\* setup has run, the circles exist and an Update step has begun.
C3_Witness == setupRuns = 1 /\ frame >= 1 /\ Cardinality(WithComp("Collider")) = 32

\* setup ran once before the first Update step, and transform_parent ran or was
\* skipped as the state says.
C4_Schedule ==
    /\ phase = "startup" => setupRuns = 0 /\ frame = 0
    /\ phase = "update" => setupRuns = 1
    /\ tpc = "ran" => appState = "Running"
    /\ tpc = "skipped" => appState # "Running"

\* C4: setup runs exactly once, at Startup, before any Update step; every Update step
\* runs render_rays to its end whatever the state, and runs transform_parent exactly
\* when the state is Running; so the parent's Transform never changes during a step
\* in which the state is not Running, while the rays of that step are still drawn.
C4_Scheduling ==
    /\ []C4_Schedule
    /\ [][/\ setupRuns' # setupRuns => phase = "startup" /\ frame = 0 /\ setupRuns' = 1
          /\ FrameEnd =>
                /\ rpc = "done"
                /\ tpc = "ran" <=> appState = "Running"
                /\ \A r \in 1..Len(rays) : r \in RaysDone /\ Len(RayGizmos(r)) >= 1
          /\ (phase = "update" /\ appState # "Running") =>
                \A q \in WithComp("ParentTransform") : transforms'[q.id] = transforms[q.id]
         ]_vars

\* A second Update step, paused: transform_parent was skipped, the rays are drawn, and
\* the parent still has the Transform a running step gave it.
C4_Witness ==
    /\ frame = 2
    /\ appState = "Paused"
    /\ rpc = "done"
    /\ tpc = "skipped"
    /\ Len(gizmos) >= 1
    /\ transforms[BoxParentId] # IdentityTransform

\* C5: every ricochet cast_ray call starts at the current last_hit_location, goes in
\* the direction of the normal of the hit just before it in the chain, has maximum
\* distance 1000, and excludes exactly the entity of that hit; with a cast_ray that
\* honours the filter, two consecutive hits of a chain are never the same entity.
C5_RicochetCastArguments ==
    \A c \in ChainsBegun :
        LET L == ChainCasts(c)
            From(k) ==
                IF k = 1
                THEN StartOf(c)
                ELSE Add(L[k - 1].call.origin,
                         Scale(L[k - 1].call.direction,
                               Unwrap(L[k - 1].result).time_of_impact))
        IN  /\ \A k \in 1..Len(L) :
                  /\ k > 1 => IsProperHit(L[k - 1])
                  /\ L[k].call =
                        [origin |-> From(k), direction |-> Preceding(c, L, k).normal,
                         max_time_of_impact |-> 1000, solid |-> TRUE,
                         excluded |-> {Preceding(c, L, k).entity}]
                  /\ IsSome(L[k].result) =>
                        Unwrap(L[k].result).entity # Preceding(c, L, k).entity
            /\ (rpc = "while" /\ c = <<rayIdx, hitIdx>>) =>
                  last_hit_location =
                      IF Len(L) = 0 THEN StartOf(c)
                      ELSE IF IsProperHit(L[Len(L)]) THEN From(Len(L) + 1)
                      ELSE L[Len(L)].call.origin

\* A chain whose second cast hit, again, the entity of the hit the chain began with.
C5_Witness ==
    \E c \in ChainsBegun :
        LET L == ChainCasts(c)
        IN  /\ Len(L) >= 3
            /\ IsProperHit(L[2])
            /\ Unwrap(L[2].result).entity = HitOf(c).entity
            /\ Unwrap(L[1].result).entity # HitOf(c).entity

\* C6: what is drawn for one hit is a connected path: the green line, then pairs of a
\* yellow circle and an arrow; each arrow starts where the segment before it ended
\* (the first at the end of the green line), with its yellow circle at its start, and
\* ends at its start plus the normal of the preceding hit times the time of impact of
\* the new hit; yellow circles, arrows and casts that returned a hit with a non-zero
\* time of impact are equally many.
C6_ConnectedPath ==
    \A c \in ChainsBegun :
        LET G == ChainGizmos(c)
            L == ChainCasts(c)
            IsArrow(g) == g.kind = "arrow_2d"
            IsYellow(g) == g.kind = "circle_2d" /\ g.color = "YELLOW"
            IsSegment(g) == g.kind \in {"line_2d", "arrow_2d"}
        IN  /\ Len(G) >= 1
            /\ G[1] = Line2d(rays[c[1]].origin, StartOf(c), "GREEN", c)
            /\ Count(G, IsArrow) = Count(L, IsProperHit)
            /\ Count(G, IsYellow) = Count(L, IsProperHit)
            /\ \A i \in Where(G, IsArrow) :
                  LET m == (i - 1) \div 2
                  IN  /\ i = 2 * m + 1
                      /\ m >= 1
                      /\ IsSegment(G[i - 2])
                      /\ i = 3 <=> G[i - 2].kind = "line_2d"
                      /\ G[i - 2].b = G[i].a
                      /\ G[i - 1] = Circle2d(G[i].a, 5, "YELLOW", c)
                      /\ IsProperHit(L[m])
                      /\ G[i] =
                            Arrow2d(G[i].a,
                                    Add(G[i].a,
                                        Scale(Preceding(c, L, m).normal,
                                              Unwrap(L[m].result).time_of_impact)),
                                    "GREEN", c)
            /\ \A i \in Where(G, IsYellow) :
                  i < Len(G) /\ IsArrow(G[i + 1]) /\ G[i + 1].a = G[i].a

\* A chain of at least three arrows that do not all point the same way.
C6_Witness ==
    \E c \in ChainsBegun :
        LET G == ChainGizmos(c)
        IN  /\ Len(G) >= 7
            /\ G[3].kind = "arrow_2d"
            /\ G[5].kind = "arrow_2d"
            /\ G[7].kind = "arrow_2d"
            /\ G[5].b = G[3].a
            /\ G[5].b # G[5].a

\* C7: a ricochet cast that returns no hit draws one orange circle at
\* last_hit_location and one orange-red ray from there along the preceding hit's
\* normal, and is the last cast of its chain and the last thing drawn for it; a
\* chain has at most one such marker, and none when its last cast returned a hit
\* (the chain ended at the cap or on a zero time of impact).
C7_MissEndsChain ==
    \A c \in ChainsBegun :
        LET G == ChainGizmos(c)
            L == ChainCasts(c)
            IsOrange(g) == g.kind = "circle_2d" /\ g.color = "ORANGE"
            IsMissRay(g) == g.kind = "ray_2d"
        IN  /\ Count(L, IsMissResult) <= 1
            /\ Count(G, IsOrange) = Count(L, IsMissResult)
            /\ Count(G, IsMissRay) = Count(L, IsMissResult)
            /\ \A k \in Where(L, IsMissResult) :
                  /\ k = Len(L)
                  /\ Len(G) = 1 + 2 * k
                  /\ G[Len(G) - 1] = Circle2d(L[k].call.origin, 5, "ORANGE", c)
                  /\ G[Len(G)] =
                        Ray2d(L[k].call.origin, Scale(Preceding(c, L, k).normal, 1000),
                              "ORANGE_RED", c)
                  /\ (rpc = "while" /\ c = <<rayIdx, hitIdx>>) =>
                        some_ricochet = None /\ last_hit_location = L[k].call.origin
            /\ (c \in ChainsEnded /\ Len(L) = 63 /\ ~IsMissResult(L[63])) =>
                  Count(G, IsOrange) = 0 /\ Count(G, IsMissRay) = 0

\* A chain ended by a miss after at least one arrow, and the next chain has cast.
C7_Witness ==
    /\ <<1, 2>> \in ChainsBegun
    /\ Len(ChainCasts(<<1, 1>>)) >= 2
    /\ IsMissResult(ChainCasts(<<1, 1>>)[Len(ChainCasts(<<1, 1>>))])
    /\ Len(ChainCasts(<<1, 2>>)) >= 1

\* A zero time of impact is the last cast of an ended chain and draws nothing.
C8_ZeroEndsChainState ==
    \A c \in ChainsBegun :
        LET G == ChainGizmos(c)
            L == ChainCasts(c)
        IN  \A k \in Where(L, IsZeroResult) :
                /\ k = Len(L)
                /\ Len(G) = 1 + 2 * (k - 1)
                /\ c \in ChainsEnded

\* C8: a ricochet cast that returns a hit with time of impact 0 ends its chain at
\* once: nothing is drawn for the cast, last_hit_location and n_hits stay as they
\* were, the chain makes no further cast, and the loop over the hits goes on with the
\* next hit.
C8_ZeroToiEndsChain ==
    /\ []C8_ZeroEndsChainState
    /\ [][(While /\ Len(castLog') = Len(castLog) + 1 /\ IsZeroResult(castLog'[Len(castLog')]))
             => /\ gizmos' = gizmos
                /\ last_hit_location' = last_hit_location
                /\ n_hits' = n_hits
                /\ rpc' = "for_hit"
                /\ rayIdx' = rayIdx
                /\ hitIdx' = hitIdx + 1
         ]_vars

\* A chain ended by a zero time of impact after at least one arrow, and the next hit
\* of the same RayHits has its green line.
C8_Witness ==
    /\ <<1, 2>> \in ChainsBegun
    /\ Len(ChainCasts(<<1, 1>>)) >= 2
    /\ IsZeroResult(ChainCasts(<<1, 1>>)[Len(ChainCasts(<<1, 1>>))])
    /\ Len(ChainGizmos(<<1, 2>>)) >= 1

\* C9: transform_parent writes a Transform only when exactly one entity carries
\* ParentTransform, and then that entity's Transform and nothing else; with none or
\* several it writes no Transform.  setup spawns exactly one such entity, and the
\* ray caster is neither that entity nor a child of it, so its Transform is never
\* written by transform_parent.
C9_TransformParentWrites ==
    /\ [](setupRuns = 1 =>
            /\ Cardinality(WithComp("ParentTransform")) = 1
            /\ Cardinality(WithComp("RayCaster")) = 1
            /\ \A rc \in WithComp("RayCaster") :
                  /\ rc \notin WithComp("ParentTransform")
                  /\ \A q \in WithComp("ParentTransform") : rc.parent # q.id
                  /\ rc.id \in DOMAIN transforms)
    /\ [][TransformParent =>
             LET marked == WithComp("ParentTransform")
             IN  /\ DOMAIN transforms' = DOMAIN transforms
                 /\ Cardinality(marked) = 1 =>
                       \A id \in DOMAIN transforms :
                           IF id \in {q.id : q \in marked}
                           THEN /\ transforms'[id] # transforms[id]
                                /\ transforms'[id].rot # transforms[id].rot
                                /\ transforms'[id].x = Sin10(frame)
                                /\ transforms'[id].y = Cos10(frame)
                           ELSE transforms'[id] = transforms[id]
                 /\ Cardinality(marked) # 1 => transforms' = transforms
                 /\ \A rc \in WithComp("RayCaster") :
                       transforms'[rc.id] = transforms[rc.id]
                 /\ UNCHANGED <<entities, rays, sqWorld, gizmos, castLog, appState, frame>>
         ]_vars

\* transform_parent has run in the world of setup: the parent's Transform is written,
\* the ray caster's is not.
C9_Witness ==
    /\ setupRuns = 1
    /\ tpc = "ran"
    /\ transforms[BoxParentId] # IdentityTransform
    /\ transforms[BodyId] = IdentityTransform

\* C10: render_rays only reads the simulation: no step of it changes a RayCaster's
\* origin or direction, an entry of RayHits, an entity or a Transform; it only adds
\* draw commands and issues cast_ray queries.
C10_RenderRaysReadOnly ==
    [][RenderRays =>
          /\ rays' = rays
          /\ entities' = entities
          /\ transforms' = transforms
          /\ sqWorld' = sqWorld
          /\ appState' = appState
          /\ Len(gizmos') >= Len(gizmos)
          /\ Len(castLog') >= Len(castLog)
      ]_vars

\* render_rays has finished a second frame in which it cast rays, and RayHits still
\* holds its hits.
C10_Witness ==
    /\ frame = 2
    /\ rpc = "done"
    /\ Len(castLog) >= 1
    /\ Len(rays) = 1
    /\ Len(rays[1].hits) = 2

====
